---- MODULE Spec2Model ----
(***************************************************************************)
(* A model of reduce_bench.cu: main() fills the shared dataset, discovers  *)
(* the GPU targets, registers the static and the dynamically generated     *)
(* cases, and hands them to the timing framework, which executes each      *)
(* case's function (automatic<> or the OpenCL lambda, both ending in       *)
(* generic()) one or more times, on one or more threads.                   *)
(*                                                                         *)
(* Floating-point values are modelled exactly: a sum is an integer (the    *)
(* dataset holds only 1.0), an error is the fraction <<numerator,          *)
(* denominator>>.  All products stay far below 2^64, where the code's      *)
(* unsigned arithmetic is exact.                                           *)
(***************************************************************************)
EXTENDS Integers, Sequences, FiniteSets, TLC

\* ------------------------------------------------------------- bounds
\* Largest element count given on the command line (argv[1]); the counts
\* explored are 1..MaxElements.
MaxElements == 2
\* Largest value returned by cuda_device_count().
MaxCudaDevices == 1
\* Largest number of targets returned by opencl_targets().
MaxTargets == 2
\* Largest iteration count the framework asks of one execution.
MaxIterations == 2

\* Thread counts the framework may be configured with for a case: the one
\* thread main() registers every case with, and the smallest count that has
\* a thread other than the lead.
ThreadCounts == {1, 2}

\* Device names the discovery service may report.  Two devices of the same
\* model report the same name.
DeviceNames == {"TitanV", "Arc"}

\* ------------------------------------------------- program constants
SizeofFloat == 4

\* The fill value of std::fill(dataset.begin(), dataset.end(), 1.f).
FillValue == 1

\* opencl_t::kernels_k and opencl_wg_sizes are declared in
\* reduce_opencl.hpp; their sizes are taken from the documented scenario
\* (three kernel variants, two granularities).
kernels_k == <<"reduce_simple", "reduce_shared", "reduce_unrolled">>

opencl_wg_sizes == <<32, 64>>

\* The CPU cases of lines 57-69, in registration order: name and
\* accumulator type.
StaticCases ==
    << <<"cpu_baseline:f32", "cpu_baseline_gt<float>">>,
       <<"cpu_baseline:f64", "cpu_baseline_gt<double>">>,
       <<"cpu_openmp", "cpu_openmp_t">>,
       <<"cpu_par:f32", "cpu_par_gt<float>">>,
       <<"cpu_par:f64", "cpu_par_gt<double>">>,
       <<"cpu_par_unseq:f32", "cpu_par_unseq_gt<float>">>,
       <<"cpu_par_unseq:f64", "cpu_par_unseq_gt<double>">>,
       <<"cpu_avx2:f32", "cpu_avx2_f32_t">>,
       <<"cpu_avx2:f32kahan", "cpu_avx2_kahan_t">>,
       <<"cpu_avx2:f64", "cpu_avx2_f64_t">>,
       <<"cpu_avx2:f64:by32", "cpu_avx2_f64_by32_t">> >>

\* The CUDA cases of lines 73-75.
CudaCases ==
    << <<"cuda_cub", "cuda_cub_t">>,
       <<"cuda_warps", "cuda_warps_t">>,
       <<"cuda_thrust", "cuda_thrust_t">> >>

CounterNames == {"adds/s", "bytes/s", "error,%"}

\* -------------------------------------------------------------- state
VARIABLES
    pc,             \* main's position
    elements,       \* size_t elements
    dataset,        \* static std::vector<float> dataset
    ocl_targets,    \* auto ocl_targets = opencl_targets()
    cuda_found,     \* whether cuda_device_count() returned non-zero
    benchmarks,     \* the framework's list of registered cases
    ti, ki, gi,     \* positions of the three registration loops
    threads,        \* thread count the framework runs a case with
    cur,            \* index of the case being run (0: none yet)
    phase,          \* "idle" between cases, "exec" while the function runs
    run,            \* number of the current execution of the case's function
    max_iterations, \* iterations the framework asks of this execution
    tpc,            \* per thread: position inside the case's function
    iters,          \* per thread: completed iterations of the timed loop
    sum,            \* per thread: generic()'s local sum
    error,          \* per thread: generic()'s local error, a fraction
    acc,            \* per thread: the accumulator the function constructed
    counters,       \* per thread: state.counters
    log,            \* history: per thread, the events of this execution
    writes,         \* history: per thread, counter writes of this execution
    constructions,  \* history: accumulators constructed for case cur
    invocations,    \* history: accumulator invocations for case cur
    reported_once,  \* history: case cur has published its counters
    reported,       \* history: cases whose measurement was completed
    failed          \* history: case whose construction failed (0: none)

mainVars == <<pc, elements, dataset, ocl_targets, cuda_found, benchmarks, ti, ki, gi>>
runVars == <<threads, cur, phase, run, max_iterations>>
threadVars == <<tpc, iters, sum, error, acc, counters>>
historyVars == <<log, writes, constructions, invocations, reported_once, reported, failed>>
vars == <<mainVars, runVars, threadVars, historyVars>>

\* ------------------------------------------------------------ helpers
Threads == 0 .. (threads - 1)

NoTarget == [device |-> 0, device_name |-> ""]

NoCapture == [tgt |-> NoTarget, group_size |-> 0, kernel_name |-> ""]

NoAccumulator == [type |-> "", tgt |-> NoTarget, group_size |-> 0, kernel_name |-> ""]

NoCounters == [c \in CounterNames |-> <<>>]

NoWrites == [c \in CounterNames |-> 0]

Abs(x) == IF x < 0 THEN -x ELSE x

\* Every list opencl_targets() may return: up to MaxTargets devices, each
\* with its own handle and a reported name.
TargetLists ==
    UNION {{[i \in 1..n |-> [device |-> i, device_name |-> names[i]]] :
                names \in [1..n -> DeviceNames]} : n \in 0..MaxTargets}

\* The values an accumulator invocation may return over n elements of 1.0:
\* the exact sum, or a sum off by one rounding step either way.
AccumulatorResults(n) == {s \in 0..(n + 1) : s >= n - 1}

\* The outcomes of constructing an accumulator.
ConstructOutcomes == {"ok", "throws"}

\* fmt::format("opencl-{} split by {} on {}", kernel_name, group_size, tgt.device_name)
Format(kernel_name, group_size, device_name) ==
    "opencl-" \o kernel_name \o " split by " \o ToString(group_size) \o " on " \o device_name

\* bm::RegisterBenchmark(name, &automatic<accumulator_at>)
AutomaticCase(c) == [name |-> c[1], fn |-> "automatic", type |-> c[2], capture |-> NoCapture]

RECURSIVE RegisterAll(_, _)
RegisterAll(list, cases) ==
    IF cases = <<>> THEN list
    ELSE RegisterAll(Append(list, AutomaticCase(Head(cases))), Tail(cases))

\* std::fill over the resized vector.
Fill(n) == [i \in 1..n |-> FillValue]

\* double const sum_expected = dataset.size() * 1.0
sum_expected == Len(dataset) * 1

\* error = std::abs(sum_expected - sum) / sum_expected
RelativeError(expected, s) == <<Abs(expected - s), expected>>

\* A faulty variant: the element total computed with a sum instead of a product.
TotalOpsAdded(iterations, size) == iterations + size

\* auto total_ops = state.iterations() * dataset.size()
TotalOps(iterations, size) == iterations * size

\* A faulty variant: the thread_index guard dropped.
IsLeadAny(t) == TRUE

\* state.thread_index() == 0
IsLead(t) == t = 0

\* for (auto _ : state): the loop goes on while iterations remain.
KeepRunning(t) == iters[t] < max_iterations

\* A faulty variant: the CUDA cases registered whatever the device count.
CudaRegisteredAlways(count) == CudaCases

\* Lines 72-77: the CUDA cases are registered only when a device was found.
CudaRegistered(count) == IF count # 0 THEN CudaCases ELSE <<>>

\* A faulty variant: a capture by reference, which reads the loop variables as the
\* last iteration left them.
CaptureLast(tgt, group_size, kernel_name) ==
    [tgt |-> ocl_targets[Len(ocl_targets)],
     group_size |-> opencl_wg_sizes[Len(opencl_wg_sizes)],
     kernel_name |-> kernels_k[Len(kernels_k)]]

\* The lambda's capture list [=]: copies of the loop variables of this
\* iteration.
Capture(tgt, group_size, kernel_name) ==
    [tgt |-> tgt, group_size |-> group_size, kernel_name |-> kernel_name]

\* Lines 83-91: one dynamically generated case.
OpenCLCase(tgt, group_size, kernel_name) ==
    [name |-> Format(kernel_name, group_size, tgt.device_name),
     fn |-> "lambda",
     type |-> "opencl_t",
     capture |-> Capture(tgt, group_size, kernel_name)]

\* Line 33 (automatic<>) and lines 86-87 (the lambda): the accumulator the
\* case's function constructs.
ConstructAccumulator(case) ==
    [type |-> case.type,
     tgt |-> case.capture.tgt,
     group_size |-> case.capture.group_size,
     kernel_name |-> case.capture.kernel_name]

\* bm::Counter(error * 100)
Percent(e) == <<e[1] * 100, e[2]>>

\* Lines 25-28: the three counters generic() publishes.
PublishedCounters(t) ==
    LET total_ops == TotalOps(iters[t], Len(dataset))
    IN  [c \in CounterNames |->
            CASE c = "adds/s" -> <<total_ops>>
              [] c = "bytes/s" -> <<total_ops * SizeofFloat>>
              [] c = "error,%" -> Percent(error[t])]

\* A fresh bm::State and fresh locals for every thread of an execution.
FreshThreads ==
    /\ tpc' = [t \in Threads |-> "entry"]
    /\ iters' = [t \in Threads |-> 0]
    /\ sum' = [t \in Threads |-> 0]
    /\ error' = [t \in Threads |-> <<0, 1>>]
    /\ acc' = [t \in Threads |-> NoAccumulator]
    /\ counters' = [t \in Threads |-> NoCounters]
    /\ log' = [t \in Threads |-> <<>>]
    /\ writes' = [t \in Threads |-> NoWrites]

\* --------------------------------------------------------------- Init
Init ==
    /\ pc = "parse"
    /\ elements = 0
    /\ dataset = <<>>
    /\ ocl_targets = <<>>
    /\ cuda_found = FALSE
    /\ benchmarks = <<>>
    /\ ti = 1 /\ ki = 1 /\ gi = 1
    /\ threads \in ThreadCounts
    /\ cur = 0
    /\ phase = "idle"
    /\ run = 0
    /\ max_iterations = 0
    /\ tpc = [t \in Threads |-> "idle"]
    /\ iters = [t \in Threads |-> 0]
    /\ sum = [t \in Threads |-> 0]
    /\ error = [t \in Threads |-> <<0, 1>>]
    /\ acc = [t \in Threads |-> NoAccumulator]
    /\ counters = [t \in Threads |-> NoCounters]
    /\ log = [t \in Threads |-> <<>>]
    /\ writes = [t \in Threads |-> NoWrites]
    /\ constructions = 0
    /\ invocations = 0
    /\ reported_once = FALSE
    /\ reported = {}
    /\ failed = 0

\* main registers every case without ->Threads(): one thread per case.
InitMain == Init /\ threads = 1

\* --------------------------------------------------------------- main
\* Lines 40-48: parse the element count, resize and fill the dataset.
ParseArguments ==
    /\ pc = "parse"
    /\ \E e \in 1..MaxElements :
        /\ elements' = e
        /\ dataset' = Fill(e)
    /\ pc' = "discover"
    /\ UNCHANGED <<ocl_targets, cuda_found, benchmarks, ti, ki, gi>>
    /\ UNCHANGED <<runVars, threadVars, historyVars>>

\* Lines 51-54: auto ocl_targets = opencl_targets().
DiscoverTargets ==
    /\ pc = "discover"
    /\ \E l \in TargetLists : ocl_targets' = l
    /\ pc' = "static"
    /\ UNCHANGED <<elements, dataset, cuda_found, benchmarks, ti, ki, gi>>
    /\ UNCHANGED <<runVars, threadVars, historyVars>>

\* Lines 57-69: the CPU cases.
RegisterStatic ==
    /\ pc = "static"
    /\ benchmarks' = RegisterAll(benchmarks, StaticCases)
    /\ pc' = "cuda"
    /\ UNCHANGED <<elements, dataset, ocl_targets, cuda_found, ti, ki, gi>>
    /\ UNCHANGED <<runVars, threadVars, historyVars>>

\* Lines 72-77: if (cuda_device_count()) register the CUDA cases.
RegisterCuda ==
    /\ pc = "cuda"
    /\ \E n \in 0..MaxCudaDevices :
        /\ cuda_found' = (n # 0)
        /\ benchmarks' = RegisterAll(benchmarks, CudaRegistered(n))
    /\ pc' = "opencl"
    /\ UNCHANGED <<elements, dataset, ocl_targets, ti, ki, gi>>
    /\ UNCHANGED <<runVars, threadVars, historyVars>>

\* Lines 80-94: one iteration of the innermost registration loop.
RegisterOpenCL ==
    /\ pc = "opencl"
    /\ ti <= Len(ocl_targets)
    /\ LET tgt == ocl_targets[ti]
           kernel_name == kernels_k[ki]
           group_size == opencl_wg_sizes[gi]
       IN  benchmarks' = Append(benchmarks, OpenCLCase(tgt, group_size, kernel_name))
    /\ IF gi < Len(opencl_wg_sizes)
         THEN gi' = gi + 1 /\ UNCHANGED <<ki, ti>>
         ELSE /\ gi' = 1
              /\ IF ki < Len(kernels_k)
                   THEN ki' = ki + 1 /\ UNCHANGED ti
                   ELSE ki' = 1 /\ ti' = ti + 1
    /\ UNCHANGED <<pc, elements, dataset, ocl_targets, cuda_found>>
    /\ UNCHANGED <<runVars, threadVars, historyVars>>

\* Line 96: the loops are over; bm::Initialize.
Initialize ==
    /\ pc = "opencl"
    /\ ti > Len(ocl_targets)
    /\ pc' = "run"
    /\ UNCHANGED <<elements, dataset, ocl_targets, cuda_found, benchmarks, ti, ki, gi>>
    /\ UNCHANGED <<runVars, threadVars, historyVars>>

\* ------------------------------------------ bm::RunSpecifiedBenchmarks
\* Line 97: the framework takes the next registered case and executes its
\* function a first time, asking for one iteration.
StartCase ==
    /\ pc = "run"
    /\ phase = "idle"
    /\ cur < Len(benchmarks)
    /\ cur' = cur + 1
    /\ phase' = "exec"
    /\ run' = 1
    /\ max_iterations' = 1
    /\ FreshThreads
    /\ constructions' = 0
    /\ invocations' = 0
    /\ reported_once' = FALSE
    /\ UNCHANGED <<mainVars, threads, reported, failed>>

\* Line 33 / lines 86-87: the function constructs its accumulator.  A
\* constructor that throws is caught nowhere: not in automatic<>, not in
\* the lambda, not in main; the process terminates.
Construct(t) ==
    /\ pc = "run"
    /\ phase = "exec"
    /\ tpc[t] = "entry"
    /\ \E outcome \in ConstructOutcomes :
        IF outcome = "ok"
          THEN /\ acc' = [acc EXCEPT ![t] = ConstructAccumulator(benchmarks[cur])]
               /\ tpc' = [tpc EXCEPT ![t] = "loop"]
               /\ log' = [log EXCEPT ![t] = Append(@, "construct")]
               /\ constructions' = constructions + 1
               /\ UNCHANGED <<pc, failed>>
          ELSE /\ pc' = "aborted"
               /\ failed' = cur
               /\ UNCHANGED <<acc, tpc, log, constructions>>
    /\ UNCHANGED <<elements, dataset, ocl_targets, cuda_found, benchmarks, ti, ki, gi>>
    /\ UNCHANGED <<runVars, iters, sum, error, counters>>
    /\ UNCHANGED <<writes, invocations, reported_once, reported>>

\* A faulty variant: the loop keeps the largest error seen instead of the last one.
InvokeKeepingWorstError(t) ==
    /\ pc = "run"
    /\ phase = "exec"
    /\ tpc[t] = "loop"
    /\ \A u \in Threads : tpc[u] # "entry"
    /\ KeepRunning(t)
    /\ \E s \in AccumulatorResults(Len(dataset)) :
        /\ sum' = [sum EXCEPT ![t] = s]
        /\ error' = [error EXCEPT ![t] =
                        IF iters[t] > 0 /\ @[1] > Abs(sum_expected - s)
                          THEN @ ELSE RelativeError(sum_expected, s)]
    /\ iters' = [iters EXCEPT ![t] = @ + 1]
    /\ log' = [log EXCEPT ![t] = Append(@, "invoke")]
    /\ invocations' = invocations + 1
    /\ UNCHANGED <<mainVars, runVars, tpc, acc, counters>>
    /\ UNCHANGED <<writes, constructions, reported_once, reported, failed>>

\* A faulty variant: the invocation writes through the pointers it was given.
InvokeClobbering(t) ==
    /\ pc = "run"
    /\ phase = "exec"
    /\ tpc[t] = "loop"
    /\ \A u \in Threads : tpc[u] # "entry"
    /\ KeepRunning(t)
    /\ \E s \in AccumulatorResults(Len(dataset)) :
        /\ sum' = [sum EXCEPT ![t] = s]
        /\ error' = [error EXCEPT ![t] = RelativeError(sum_expected, s)]
    /\ dataset' = [i \in 1..Len(dataset) |-> 0]
    /\ iters' = [iters EXCEPT ![t] = @ + 1]
    /\ log' = [log EXCEPT ![t] = Append(@, "invoke")]
    /\ invocations' = invocations + 1
    /\ UNCHANGED <<pc, elements, ocl_targets, cuda_found, benchmarks, ti, ki, gi>>
    /\ UNCHANGED <<runVars, tpc, acc, counters>>
    /\ UNCHANGED <<writes, constructions, reported_once, reported, failed>>

\* A faulty variant: the accumulator constructed inside the timed loop, once per
\* repetition.
InvokeReconstructing(t) ==
    /\ pc = "run"
    /\ phase = "exec"
    /\ tpc[t] = "loop"
    /\ \A u \in Threads : tpc[u] # "entry"
    /\ KeepRunning(t)
    /\ \E s \in AccumulatorResults(Len(dataset)) :
        /\ sum' = [sum EXCEPT ![t] = s]
        /\ error' = [error EXCEPT ![t] = RelativeError(sum_expected, s)]
    /\ iters' = [iters EXCEPT ![t] = @ + 1]
    /\ log' = [log EXCEPT ![t] = @ \o <<"construct", "invoke">>]
    /\ constructions' = constructions + 1
    /\ invocations' = invocations + 1
    /\ UNCHANGED <<mainVars, runVars, tpc, acc, counters>>
    /\ UNCHANGED <<writes, reported_once, reported, failed>>

\* Lines 18-22: one iteration of the timed loop.  The loop starts once
\* every thread of the execution has arrived at it.
Invoke(t) ==
    /\ pc = "run"
    /\ phase = "exec"
    /\ tpc[t] = "loop"
    /\ \A u \in Threads : tpc[u] # "entry"
    /\ KeepRunning(t)
    /\ \E s \in AccumulatorResults(Len(dataset)) :
        /\ sum' = [sum EXCEPT ![t] = s]
        /\ error' = [error EXCEPT ![t] = RelativeError(sum_expected, s)]
    /\ iters' = [iters EXCEPT ![t] = @ + 1]
    /\ log' = [log EXCEPT ![t] = Append(@, "invoke")]
    /\ invocations' = invocations + 1
    /\ UNCHANGED <<mainVars, runVars, tpc, acc, counters>>
    /\ UNCHANGED <<writes, constructions, reported_once, reported, failed>>

\* A faulty variant: the counters published inside the timed loop, before its last
\* repetition.
PublishEarly(t) ==
    /\ pc = "run"
    /\ phase = "exec"
    /\ tpc[t] = "loop"
    /\ \A u \in Threads : tpc[u] # "entry"
    /\ IF IsLead(t)
         THEN /\ counters' = [counters EXCEPT ![t] = PublishedCounters(t)]
              /\ writes' = [writes EXCEPT ![t] = [c \in CounterNames |-> @[c] + 1]]
              /\ log' = [log EXCEPT ![t] = Append(@, "publish")]
              /\ reported_once' = TRUE
         ELSE UNCHANGED <<counters, writes, log, reported_once>>
    /\ tpc' = [tpc EXCEPT ![t] = IF KeepRunning(t) THEN "loop" ELSE "returned"]
    /\ UNCHANGED <<mainVars, runVars, iters, sum, error, acc>>
    /\ UNCHANGED <<constructions, invocations, reported, failed>>

\* Lines 24-30: after the loop (left once every thread has finished its
\* iterations) the lead thread publishes the counters; the function returns.
Publish(t) ==
    /\ pc = "run"
    /\ phase = "exec"
    /\ tpc[t] = "loop"
    /\ \A u \in Threads : tpc[u] # "entry" /\ ~KeepRunning(u)
    /\ IF IsLead(t)
         THEN /\ counters' = [counters EXCEPT ![t] = PublishedCounters(t)]
              /\ writes' = [writes EXCEPT ![t] = [c \in CounterNames |-> @[c] + 1]]
              /\ log' = [log EXCEPT ![t] = Append(@, "publish")]
              /\ reported_once' = TRUE
         ELSE UNCHANGED <<counters, writes, log, reported_once>>
    /\ tpc' = [tpc EXCEPT ![t] = "returned"]
    /\ UNCHANGED <<mainVars, runVars, iters, sum, error, acc>>
    /\ UNCHANGED <<constructions, invocations, reported, failed>>

\* The execution was too short for MinTime(10): the framework executes the
\* case's function again, asking for more iterations.
Rerun ==
    /\ pc = "run"
    /\ phase = "exec"
    /\ \A t \in Threads : tpc[t] = "returned"
    /\ \E n \in (max_iterations + 1)..MaxIterations : max_iterations' = n
    /\ run' = run + 1
    /\ FreshThreads
    /\ UNCHANGED <<mainVars, threads, cur, phase>>
    /\ UNCHANGED <<constructions, invocations, reported_once, reported, failed>>

\* The execution was long enough: the framework reports the case; the
\* execution's bm::State objects and locals are gone.
ReportCase ==
    /\ pc = "run"
    /\ phase = "exec"
    /\ \A t \in Threads : tpc[t] = "returned"
    /\ phase' = "idle"
    /\ reported' = reported \cup {cur}
    /\ tpc' = [t \in Threads |-> "idle"]
    /\ iters' = [t \in Threads |-> 0]
    /\ sum' = [t \in Threads |-> 0]
    /\ error' = [t \in Threads |-> <<0, 1>>]
    /\ acc' = [t \in Threads |-> NoAccumulator]
    /\ counters' = [t \in Threads |-> NoCounters]
    /\ log' = [t \in Threads |-> <<>>]
    /\ writes' = [t \in Threads |-> NoWrites]
    /\ UNCHANGED <<mainVars, threads, cur, run, max_iterations>>
    /\ UNCHANGED <<constructions, invocations, reported_once, failed>>

\* Lines 97-99: no case is left; bm::Shutdown and return.
Shutdown ==
    /\ pc = "run"
    /\ phase = "idle"
    /\ cur = Len(benchmarks)
    /\ pc' = "done"
    /\ UNCHANGED <<elements, dataset, ocl_targets, cuda_found, benchmarks, ti, ki, gi>>
    /\ UNCHANGED <<runVars, threadVars, historyVars>>

Next ==
    \/ ParseArguments
    \/ DiscoverTargets
    \/ RegisterStatic
    \/ RegisterCuda
    \/ RegisterOpenCL
    \/ Initialize
    \/ StartCase
    \/ \E t \in Threads : Construct(t)
    \/ \E t \in Threads : Invoke(t)
    \/ \E t \in Threads : Publish(t)
    \/ Rerun
    \/ ReportCase
    \/ Shutdown

Spec == Init /\ [][Next]_vars

SpecMain == InitMain /\ [][Next]_vars

\* ============================================================ claims
Registered == pc \in {"run", "done", "aborted"}

CaseIndexes == 1..Len(benchmarks)

DynamicCases == {i \in CaseIndexes : benchmarks[i].fn = "lambda"}

HasPrefix(s, p) == Len(s) >= Len(p) /\ SubSeq(s, 1, Len(p)) = p

Contains(s, part) ==
    \E i \in 1..(Len(s) - Len(part) + 1) : SubSeq(s, i, i + Len(part) - 1) = part

Published(t) == counters[t] # NoCounters

Count(l, e) == Cardinality({i \in 1..Len(l) : l[i] = e})

\* The iteration of the three registration loops that registered case i:
\* the cases before the first dynamic one are the CPU cases and, when a CUDA
\* device was found, the three CUDA cases.
FirstDynamic == Len(StaticCases) + (IF cuda_found THEN Len(CudaCases) ELSE 0) + 1

TargetOf(i) ==
    ocl_targets[((i - FirstDynamic) \div (Len(kernels_k) * Len(opencl_wg_sizes))) + 1]

KernelOf(i) ==
    kernels_k[(((i - FirstDynamic) \div Len(opencl_wg_sizes)) % Len(kernels_k)) + 1]

GroupSizeOf(i) == opencl_wg_sizes[((i - FirstDynamic) % Len(opencl_wg_sizes)) + 1]

\* C1: once registration has finished, no CUDA case is registered when
\* cuda_device_count() returned 0, and no dynamically generated
\* ("opencl-...") case is registered when opencl_targets() returned nothing.
C1_NoBackendNoCase ==
    Registered =>
        /\ ~cuda_found =>
              \A i \in CaseIndexes :
                  benchmarks[i].name \notin {"cuda_cub", "cuda_warps", "cuda_thrust"}
        /\ ocl_targets = <<>> =>
              \A i \in CaseIndexes :
                  /\ benchmarks[i].fn # "lambda"
                  /\ ~HasPrefix(benchmarks[i].name, "opencl-")

\* C1 witness: registration finished with neither a CUDA device nor an
\* OpenCL target, leaving exactly the CPU cases.
C1_Witness ==
    /\ Registered
    /\ ~cuda_found
    /\ ocl_targets = <<>>
    /\ Len(benchmarks) = Len(StaticCases)

\* C2 (as stated): for every list of discovered targets the loops register
\* exactly T*K*G dynamic cases, with pairwise distinct labels, each label
\* containing its kernel name, its granularity and its device name.
C2_Original ==
    Registered =>
        /\ Cardinality(DynamicCases) =
              Len(ocl_targets) * Len(kernels_k) * Len(opencl_wg_sizes)
        /\ \A i, j \in DynamicCases : i # j => benchmarks[i].name # benchmarks[j].name
        /\ \A i \in DynamicCases :
              /\ Contains(benchmarks[i].name, KernelOf(i))
              /\ Contains(benchmarks[i].name, ToString(GroupSizeOf(i)))
              /\ Contains(benchmarks[i].name, TargetOf(i).device_name)

\* C3 (as stated): a failed accumulator construction does not abort the run,
\* and every case registered after the failing one is still reported.
C3_Original ==
    failed # 0 =>
        /\ pc # "aborted"
        /\ pc = "done" => \A i \in (failed + 1)..Len(benchmarks) : i \in reported

\* C4: in every execution of a case, under every interleaving of its
\* threads, only thread 0 writes counters, and it writes each of the three
\* counters exactly once.
C4_OnlyLeadWrites ==
    \A t \in Threads :
        /\ t # 0 => counters[t] = NoCounters /\ writes[t] = NoWrites
        /\ t = 0 =>
              \A c \in CounterNames :
                  /\ writes[t][c] <= 1
                  /\ tpc[t] = "returned" => writes[t][c] = 1 /\ counters[t][c] # <<>>

\* C4 witness: an execution on two threads has finished, the lead thread
\* having written its counters.
C4_Witness ==
    /\ threads >= 2
    /\ \A t \in Threads : tpc[t] = "returned"
    /\ writes[0]["adds/s"] = 1
    /\ writes[0]["error,%"] = 1

\* C5: for N >= 1 the published error is 100 * |N - s| / N, s being the sum
\* the last invocation of the publishing thread's timed loop returned.
C5_ErrorOfLastSum ==
    \A t \in Threads :
        (Len(dataset) >= 1 /\ Published(t)) =>
            LET e == counters[t]["error,%"]
                N == Len(dataset)
            IN  /\ e[2] > 0
                /\ e[1] * N = 100 * Abs(N - sum[t]) * e[2]

\* C5 witness: counters published after two repetitions, the last sum being
\* inexact.
C5_Witness ==
    /\ Len(dataset) = 2
    /\ Published(0)
    /\ iters[0] = 2
    /\ sum[0] = 3
    /\ counters[0]["error,%"] = <<100, 2>>

C8_Throughput ==
    \A t \in Threads :
        (Len(dataset) >= 1 /\ Published(t) /\ iters[t] >= 1) =>
            LET adds == counters[t]["adds/s"][1]
                bytes == counters[t]["bytes/s"][1]
            IN  /\ adds = iters[t] * Len(dataset)
                /\ adds > 0
                /\ bytes = 4 * adds

\* C8 witness: two repetitions over two elements published as 4 elements
\* and 16 bytes.
C8_Witness ==
    /\ Len(dataset) = 2
    /\ iters[0] = 2
    /\ counters[0]["adds/s"] = <<4>>
    /\ counters[0]["bytes/s"] = <<16>>

C10_OwnCapture ==
    \A t \in Threads :
        (cur >= 1 /\ benchmarks[cur].fn = "lambda" /\ acc[t] # NoAccumulator) =>
            /\ acc[t].tgt = TargetOf(cur)
            /\ acc[t].kernel_name = KernelOf(cur)
            /\ acc[t].group_size = GroupSizeOf(cur)
            /\ benchmarks[cur].name =
                  Format(acc[t].kernel_name, acc[t].group_size, acc[t].tgt.device_name)

\* C10 witness: with two targets discovered, the first dynamic case (not the
\* last iteration of any loop) runs with its accumulator constructed.
C10_Witness ==
    /\ Len(ocl_targets) = 2
    /\ cur = FirstDynamic
    /\ cur \in DynamicCases
    /\ acc[0] # NoAccumulator
    /\ acc[0].kernel_name = kernels_k[1]

====
